---- MODULE Spec2Model ----
(***************************************************************************)
(* Model of jq6500.py: the Player driver for the JQ6500 mini MP3 module.   *)
(*                                                                         *)
(* Bytes are integers 0..255 and byte strings are sequences of them.  The  *)
(* UART is its receive buffer (uart_rx) and the trace of the operations    *)
(* the driver performs on it.  Every public method of Player is one        *)
(* action; the action runs the whole method, calls included, on a          *)
(* "machine" record m that threads the receive buffer, the trace, a raised *)
(* exception and the value being returned through the method's statements. *)
(*                                                                         *)
(* busio.UART is a library outside the repository.  Its read is modelled   *)
(* as returning the bytes available, possibly none (b''), and `assert` as  *)
(* enabled, which is the default build.                                    *)
(***************************************************************************)
EXTENDS Integers, Sequences, FiniteSets, TLC

VARIABLES
    phase,      \* life of the Player: "new" | "ready" | "failed" (__init__
                \* raised with the link open) | "unopened" (__init__ raised
                \* opening the link) | "released"
    uart_rx,    \* unread bytes in the UART receive buffer
    inflight,   \* bytes the device has sent in reply to an earlier command
                \* and that have not reached the UART yet
    last        \* the method call that has just ended (name "idle": none):
                \* name, arguments, the bytes that reached the link during
                \* the call (reply) and how many of them the device had sent
                \* in reply to an earlier command (late), link trace, outcome

vars == <<phase, uart_rx, inflight, last>>

(***************************************************************************)
(* Bounds and input sets                                                   *)
(***************************************************************************)
\* Most bytes that reach the link during one call.
MaxReply == 5

\* Most bytes left unread or still in flight between two calls when part of
\* a reply comes late.
MaxLate == 1

\* Bytes the device replies with: "0", "1", "2" and "z".
RespBytes == {\H30, \H31, \H32, \H7A}

RECURSIVE SeqsUpTo(_, _)
SeqsUpTo(S, n) ==
    IF n = 0 THEN {<<>>}
    ELSE LET shorter == SeqsUpTo(S, n - 1)
         IN  shorter \cup {Append(s, c) : s \in {t \in shorter : Len(t) = n - 1}, c \in S}

AllReplies == SeqsUpTo(RespBytes, MaxReply)

\* What the device sends in reply to a call and is on the link by the time
\* the call reads it.
Replies == {r \in AllReplies : Len(inflight) + Len(r) <= MaxReply}

\* The part of a reply that reaches the link only after the call has read.
LateReplies == SeqsUpTo(RespBytes, MaxLate) \ {<<>>}

VolumeArgs == {-1, 0, 1, 20, 30, 31, 35, 256}
ModeArgs == {-1, 0, 1, 2, 3, 4, 5, 256}
SourceArgs == {1, 4}
IndexArgs == {-1, 0, 1, 255, 256, 300, 65535, 65536}
NumberArgs == {0, 1, 99, 255, 256}
\* What a freshly opened UART may already hold: nothing, or a stray "z".
StaleBytes == {<<>>, <<\H7A>>}

(***************************************************************************)
(* Class constants                                                         *)
(***************************************************************************)
SRC_SDCARD == 1
SRC_BUILTIN == 4
STATUS_STOPPED == 0
STATUS_PLAYING == 1
STATUS_PAUSED == 2
\* Delays in milliseconds: READ_DELAY = .1 s, and the sleep(.5) of reset.
READ_DELAY == 100
RESET_DELAY == 500

(***************************************************************************)
(* Byte strings                                                            *)
(***************************************************************************)
Min(a, b) == IF a < b THEN a ELSE b

Take(s, n) == SubSeq(s, 1, Min(n, Len(s)))

Drop(s, n) == SubSeq(s, Min(n, Len(s)) + 1, Len(s))

\* bytes(data) accepts a list of integers in range(0, 256) only.
IsByteList(data) == \A i \in DOMAIN data : data[i] \in 0..255

\* bytes.isdigit(): non-empty and every byte an ASCII decimal digit.
isdigit(b) == Len(b) > 0 /\ \A i \in DOMAIN b : b[i] \in \H30..\H39

\* Value of one byte as a digit of the given base, -1 when it is none.
DigitValue(c, base) ==
    LET v == IF c \in \H30..\H39 THEN c - \H30
             ELSE IF c \in \H41..\H5A THEN c - \H41 + 10
             ELSE IF c \in \H61..\H7A THEN c - \H61 + 10
             ELSE -1
    IN  IF v < base THEN v ELSE -1

\* int(b, base) accepts b when it is a non-empty run of digits of the base
\* (the replies of RespBytes hold no sign, blank, prefix or underscore).
IsNumeral(b, base) ==
    Len(b) > 0 /\ \A i \in DOMAIN b : DigitValue(b[i], base) >= 0

RECURSIVE NumeralValue(_, _)
NumeralValue(b, base) ==
    IF Len(b) = 0 THEN 0
    ELSE NumeralValue(SubSeq(b, 1, Len(b) - 1), base) * base
            + DigitValue(b[Len(b)], base)

(***************************************************************************)
(* The machine a method runs on                                            *)
(***************************************************************************)
\* One operation on the link.  k: "flush" | "write" | "read" | "sleep" |
\* "deinit"; data: the bytes written or read; n: the size asked of a read
\* (0: no size given) or the milliseconds of a sleep.
Ev(k, n, data) == [k |-> k, n |-> n, data |-> data]

\* State at entry of a method: the receive buffer rx, an empty trace,
\* nothing raised, and the bytes the device will have sent by the time the
\* method reads the link, after whatever is still in flight from an earlier
\* command.  self.uart is set ("open") once __init__ has
\* opened the link, and no attribute of the object ("unset") before.
Enter(rx, reply) ==
    [rx |-> rx, pend |-> inflight \o reply, log |-> <<>>, exc |-> "none",
     val |-> 0, raw |-> <<>>,
     uart |-> IF phase = "ready" THEN "open" ELSE "unset"]

Raised(m) == m.exc # "none"

Raise(m, e) == [m EXCEPT !.exc = e]

\* self.uart = busio.UART(tx, rx, baudrate=9600): the link opens, or busio
\* raises (ValueError for pins it cannot use) and self.uart stays unset.
busio_UART(m, opened) ==
    IF Raised(m) THEN m
    ELSE IF opened THEN [m EXCEPT !.uart = "open"] ELSE Raise(m, "ValueError")

\* time.sleep(secs)
time_sleep(m, ms) ==
    IF Raised(m) THEN m
    ELSE [m EXCEPT !.log = Append(@, Ev("sleep", ms, <<>>))]

\* self.uart.read() with its result thrown away.
uart_flush(m) ==
    IF Raised(m) THEN m
    ELSE IF m.uart = "unset" THEN Raise(m, "AttributeError")
    ELSE [m EXCEPT !.rx = <<>>, !.log = Append(@, Ev("flush", 0, <<>>))]

\* self.uart.read(n), or self.uart.read() when n = 0: up to n of the bytes
\* received, those the device has sent in the meantime included.
uart_read(m, n) ==
    IF Raised(m) THEN m
    ELSE IF m.uart = "unset" THEN Raise(m, "AttributeError")
    ELSE LET buf == m.rx \o m.pend
             data == IF n = 0 THEN buf ELSE Take(buf, n)
         IN  [m EXCEPT !.rx = Drop(buf, Len(data)), !.pend = <<>>,
                       !.raw = data,
                       !.log = Append(@, Ev("read", n, data))]

\* self.uart.write(bytes(data))
uart_write(m, data) ==
    IF Raised(m) THEN m
    ELSE IF m.uart = "unset" THEN Raise(m, "AttributeError")
    ELSE IF IsByteList(data)
         THEN [m EXCEPT !.log = Append(@, Ev("write", 0, data))]
         ELSE Raise(m, "ValueError")

\* self.uart.deinit()
uart_deinit(m) ==
    IF Raised(m) THEN m
    ELSE IF m.uart = "unset" THEN Raise(m, "AttributeError")
    ELSE [m EXCEPT !.rx = <<>>, !.log = Append(@, Ev("deinit", 0, <<>>))]

(***************************************************************************)
(* Player                                                                  *)
(***************************************************************************)
write_bytes_len(m, b) ==
    LET message_length == Len(b)
        data == <<\H7E, message_length>> \o b \o <<\HEF>>
    IN  uart_write(uart_flush(m), data)

\* write_bytes without the flush of unread input.
write_bytes_noflush(m, b) ==
    uart_write(m, <<\H7E, Len(b) + 1>> \o b \o <<\HEF>>)

write_bytes_flush_after(m, b) ==
    LET message_length == Len(b) + 1
        data == <<\H7E, message_length>> \o b \o <<\HEF>>
    IN  uart_flush(uart_write(m, data))

write_bytes(m, b) ==
    LET message_length == Len(b) + 1
        data == <<\H7E, message_length>> \o b \o <<\HEF>>
    IN  uart_write(uart_flush(m), data)

read_bytes_dec(m) ==
    LET m1 == uart_read(m, 4)
        b == m1.raw
    IN  IF Raised(m1) THEN m1
        ELSE IF Len(b) > 0
             THEN IF IsNumeral(b, 10)
                  THEN [m1 EXCEPT !.val = NumeralValue(b, 10)]
                  ELSE Raise(m1, "ValueError")
             ELSE [m1 EXCEPT !.val = -1]

read_bytes(m) ==
    LET m1 == uart_read(m, 4)
        b == m1.raw
    IN  IF Raised(m1) THEN m1
        ELSE IF Len(b) > 0
             THEN IF IsNumeral(b, 16)
                  THEN [m1 EXCEPT !.val = NumeralValue(b, 16)]
                  ELSE Raise(m1, "ValueError")
             ELSE [m1 EXCEPT !.val = -1]

play(m) == write_bytes(m, <<\H0D>>)

pause(m) == write_bytes(m, <<\H0E>>)

next(m) == write_bytes(m, <<\H01>>)

prev(m) == write_bytes(m, <<\H02>>)

next_folder(m) == write_bytes(m, <<\H0F, \H01>>)

prev_folder(m) == write_bytes(m, <<\H0F, \H00>>)

\* file_index >> 8 is the floor of file_index / 256, and & 0xFF the residue
\* modulo 256, also of a negative integer.
play_by_index_le(m, file_index) ==
    write_bytes(m, <<\H03, file_index % 256, (file_index \div 256) % 256>>)

play_by_index(m, file_index) ==
    write_bytes(m, <<\H03, (file_index \div 256) % 256, file_index % 256>>)

play_by_number(m, folder_number, file_number) ==
    write_bytes(m, <<\H12, folder_number % 256, file_number % 256>>)

volume_up(m) == write_bytes(m, <<\H04>>)

volume_down_up(m) == write_bytes(m, <<\H04>>)

volume_down(m) == write_bytes(m, <<\H05>>)

set_volume_unchecked(m, level) == write_bytes(m, <<\H06, level>>)

set_volume(m, level) ==
    IF Raised(m) THEN m
    ELSE IF 0 <= level /\ level <= 30
         THEN write_bytes(m, <<\H06, level>>)
         ELSE Raise(m, "AssertionError")

set_equalizer(m, mode) == write_bytes(m, <<\H07, mode>>)

set_looping(m, mode) == write_bytes(m, <<\H11, mode>>)

set_source(m, source) == write_bytes(m, <<\H09, source>>)

sleep(m) == write_bytes(m, <<\H0A>>)

reset(m) == time_sleep(write_bytes(m, <<\H0C>>), RESET_DELAY)

get_status_hex(m) ==
    LET m1 == time_sleep(write_bytes(m, <<\H42>>), READ_DELAY)
        m2 == time_sleep(uart_read(m1, 0), READ_DELAY)
        status == m2.raw
    IN  IF Raised(m2) THEN m2
        ELSE IF IsNumeral(status, 16)
             THEN [m2 EXCEPT !.val = NumeralValue(status, 16)]
             ELSE [m2 EXCEPT !.val = -1]

get_status(m) ==
    LET m1 == time_sleep(write_bytes(m, <<\H42>>), READ_DELAY)
        m2 == time_sleep(uart_read(m1, 0), READ_DELAY)
        status == m2.raw
    IN  IF Raised(m2) THEN m2
        ELSE IF isdigit(status)
             THEN [m2 EXCEPT !.val = NumeralValue(status, 10)]
             ELSE [m2 EXCEPT !.val = -1]

get_volume(m) == read_bytes(time_sleep(write_bytes(m, <<\H43>>), READ_DELAY))

get_equalizer(m) == read_bytes(time_sleep(write_bytes(m, <<\H44>>), READ_DELAY))

get_looping(m) == read_bytes(time_sleep(write_bytes(m, <<\H45>>), READ_DELAY))

get_file_count(m, source) ==
    LET m1 == IF source = SRC_SDCARD
              THEN write_bytes(m, <<\H47>>)
              ELSE write_bytes(m, <<\H49>>)
    IN  read_bytes(time_sleep(m1, READ_DELAY))

get_folder_count_query(m, source) ==
    read_bytes(write_bytes(m, <<\H53>>))

get_folder_count(m, source) ==
    IF source = SRC_SDCARD
    THEN read_bytes(write_bytes(m, <<\H53>>))
    ELSE [m EXCEPT !.val = 0]

get_file_index_raw(m, source) ==
    IF source = SRC_SDCARD
    THEN read_bytes(time_sleep(write_bytes(m, <<\H4B>>), READ_DELAY))
    ELSE read_bytes(time_sleep(write_bytes(m, <<\H4D>>), READ_DELAY))

get_file_index(m, source) ==
    IF source = SRC_SDCARD
    THEN read_bytes(time_sleep(write_bytes(m, <<\H4B>>), READ_DELAY))
    ELSE LET m1 == read_bytes(time_sleep(write_bytes(m, <<\H4D>>), READ_DELAY))
             count == m1.val
         IN  IF Raised(m1) THEN m1 ELSE [m1 EXCEPT !.val = count + 1]

get_position(m) == read_bytes(time_sleep(write_bytes(m, <<\H50>>), READ_DELAY))

get_length(m) == read_bytes(time_sleep(write_bytes(m, <<\H51>>), READ_DELAY))

get_name(m) == uart_read(time_sleep(write_bytes(m, <<\H52>>), READ_DELAY), 0)

get_version(m) == read_bytes(time_sleep(write_bytes(m, <<\H46>>), READ_DELAY))

read_buffer(m) == uart_read(m, 0)

play_pause_swapped(m) ==
    LET m1 == get_status(m)
        status == m1.val
    IN  IF Raised(m1) THEN m1
        ELSE IF status = STATUS_PAUSED \/ status = STATUS_STOPPED
             THEN pause(m1)
             ELSE IF status = STATUS_PLAYING THEN play(m1) ELSE m1

play_pause(m) ==
    LET m1 == get_status(m)
        status == m1.val
    IN  IF Raised(m1) THEN m1
        ELSE IF status = STATUS_PAUSED \/ status = STATUS_STOPPED
             THEN play(m1)
             ELSE IF status = STATUS_PLAYING THEN pause(m1) ELSE m1

restart(m) ==
    LET m1 == get_volume(m)
        old_volume == m1.val
    IN  prev(set_volume(pause(next(set_volume(m1, 0))), old_volume))

\* __init__ setting the volume before the reset.
Player_init_volume_first(m, volume, opened) ==
    reset(set_volume(uart_flush(busio_UART(m, opened)), volume))

\* __init__; opened: whether busio.UART opens the link.
Player_init(m, volume, opened) ==
    set_volume(reset(uart_flush(busio_UART(m, opened))), volume)

\* has_deinit: 'deinit' in dir(self.uart).
clean_up(m, has_deinit) ==
    LET m1 == reset(m)
    IN  IF has_deinit THEN uart_deinit(m1) ELSE m1

(***************************************************************************)
(* The calls of the program using the driver                               *)
(***************************************************************************)
Idle ==
    [name |-> "idle", args |-> <<>>, reply |-> <<>>, late |-> 0,
     log |-> <<>>, exc |-> "none", kind |-> "none", val |-> 0, raw |-> <<>>]

Init ==
    /\ phase = "new"
    /\ uart_rx = <<>>
    /\ inflight = <<>>
    /\ last = Idle

\* The method called as name(args) ends in machine state m; kind is what it
\* returns when nothing is raised: "none" (None), "int" or "bytes".  Bytes
\* the call has not taken from the link by a read are still on their way.
Done(name, args, reply, m, kind) ==
    /\ uart_rx' = m.rx
    /\ inflight' = m.pend
    /\ last' = [name |-> name, args |-> args,
                reply |-> IF m.pend = <<>> THEN inflight \o reply ELSE <<>>,
                late |-> IF m.pend = <<>> THEN Len(inflight) ELSE 0,
                log |-> m.log,
                exc |-> m.exc,
                kind |-> IF Raised(m) THEN "raise" ELSE kind,
                val |-> IF ~Raised(m) /\ kind = "int" THEN m.val ELSE 0,
                raw |-> IF ~Raised(m) /\ kind = "bytes" THEN m.raw ELSE <<>>]

\* A method of a constructed Player is called when no call is under way.
Ready == phase = "ready" /\ last.name = "idle"

Command(name, args, m) ==
    /\ Done(name, args, <<>>, m, "none")
    /\ UNCHANGED phase

Query(name, args, reply, m, kind) ==
    /\ Done(name, args, reply, m, kind)
    /\ UNCHANGED phase

\* Player(rx, tx, volume)
Construct ==
    /\ phase \in {"new", "failed", "unopened", "released"}
    /\ last.name = "idle"
    /\ \E volume \in VolumeArgs, stale \in StaleBytes, opened \in BOOLEAN :
        LET m == Player_init(Enter(stale, <<>>), volume, opened)
        IN  /\ Done("Player", <<volume>>, <<>>, m, "none")
            /\ phase' = IF ~opened THEN "unopened"
                        ELSE IF Raised(m) THEN "failed" ELSE "ready"

\* clean_up(), on a constructed Player or on one whose __init__ raised before
\* self.uart was set.  The argument recorded is 1 when the link has a deinit
\* method and 0 when it has none.
CallCleanUp ==
    /\ phase \in {"ready", "unopened"}
    /\ last.name = "idle"
    /\ \E has_deinit \in BOOLEAN :
           Done("clean_up", <<IF has_deinit THEN 1 ELSE 0>>, <<>>,
                clean_up(Enter(uart_rx, <<>>), has_deinit), "none")
    /\ phase' = IF phase = "unopened" THEN "unopened" ELSE "released"

CallPlay ==
    /\ Ready
    /\ Command("play", <<>>, play(Enter(uart_rx, <<>>)))

CallPlayPause ==
    /\ Ready
    /\ \E reply \in Replies :
           Query("play_pause", <<>>, reply, play_pause(Enter(uart_rx, reply)), "none")

CallRestart ==
    /\ Ready
    /\ \E reply \in Replies :
           Query("restart", <<>>, reply, restart(Enter(uart_rx, reply)), "none")

CallPause ==
    /\ Ready
    /\ Command("pause", <<>>, pause(Enter(uart_rx, <<>>)))

CallNext ==
    /\ Ready
    /\ Command("next", <<>>, next(Enter(uart_rx, <<>>)))

CallPrev ==
    /\ Ready
    /\ Command("prev", <<>>, prev(Enter(uart_rx, <<>>)))

CallNextFolder ==
    /\ Ready
    /\ Command("next_folder", <<>>, next_folder(Enter(uart_rx, <<>>)))

CallPrevFolder ==
    /\ Ready
    /\ Command("prev_folder", <<>>, prev_folder(Enter(uart_rx, <<>>)))

CallPlayByIndex ==
    /\ Ready
    /\ \E i \in IndexArgs :
           Command("play_by_index", <<i>>, play_by_index(Enter(uart_rx, <<>>), i))

CallPlayByNumber ==
    /\ Ready
    /\ \E d \in NumberArgs, f \in NumberArgs :
           Command("play_by_number", <<d, f>>,
                   play_by_number(Enter(uart_rx, <<>>), d, f))

CallVolumeUp ==
    /\ Ready
    /\ Command("volume_up", <<>>, volume_up(Enter(uart_rx, <<>>)))

CallVolumeDown ==
    /\ Ready
    /\ Command("volume_down", <<>>, volume_down(Enter(uart_rx, <<>>)))

CallSetVolume ==
    /\ Ready
    /\ \E level \in VolumeArgs :
           Command("set_volume", <<level>>, set_volume(Enter(uart_rx, <<>>), level))

CallSetEqualizer ==
    /\ Ready
    /\ \E mode \in ModeArgs :
           Command("set_equalizer", <<mode>>,
                   set_equalizer(Enter(uart_rx, <<>>), mode))

CallSetLooping ==
    /\ Ready
    /\ \E mode \in ModeArgs :
           Command("set_looping", <<mode>>, set_looping(Enter(uart_rx, <<>>), mode))

CallSetSource ==
    /\ Ready
    /\ \E source \in ModeArgs :
           Command("set_source", <<source>>,
                   set_source(Enter(uart_rx, <<>>), source))

CallSleep ==
    /\ Ready
    /\ Command("sleep", <<>>, sleep(Enter(uart_rx, <<>>)))

CallReset ==
    /\ Ready
    /\ Command("reset", <<>>, reset(Enter(uart_rx, <<>>)))

CallGetStatus ==
    /\ Ready
    /\ \E reply \in Replies :
           Query("get_status", <<>>, reply, get_status(Enter(uart_rx, reply)), "int")

CallGetVolume ==
    /\ Ready
    /\ \E reply \in Replies :
           Query("get_volume", <<>>, reply, get_volume(Enter(uart_rx, reply)), "int")

CallGetEqualizer ==
    /\ Ready
    /\ \E reply \in Replies :
           Query("get_equalizer", <<>>, reply,
                 get_equalizer(Enter(uart_rx, reply)), "int")

CallGetLooping ==
    /\ Ready
    /\ \E reply \in Replies :
           Query("get_looping", <<>>, reply,
                 get_looping(Enter(uart_rx, reply)), "int")

CallGetFileCount ==
    /\ Ready
    /\ \E source \in SourceArgs, reply \in Replies :
           Query("get_file_count", <<source>>, reply,
                 get_file_count(Enter(uart_rx, reply), source), "int")

CallGetFolderCount ==
    /\ Ready
    /\ \E source \in SourceArgs, reply \in Replies :
           /\ source # SRC_SDCARD => reply = <<>>
           /\ Query("get_folder_count", <<source>>, reply,
                    get_folder_count(Enter(uart_rx, reply), source), "int")

CallGetFileIndex ==
    /\ Ready
    /\ \E source \in SourceArgs, reply \in Replies :
           Query("get_file_index", <<source>>, reply,
                 get_file_index(Enter(uart_rx, reply), source), "int")

CallGetPosition ==
    /\ Ready
    /\ \E reply \in Replies :
           Query("get_position", <<>>, reply,
                 get_position(Enter(uart_rx, reply)), "int")

CallGetLength ==
    /\ Ready
    /\ \E reply \in Replies :
           Query("get_length", <<>>, reply, get_length(Enter(uart_rx, reply)), "int")

CallGetName ==
    /\ Ready
    /\ \E reply \in Replies :
           Query("get_name", <<>>, reply, get_name(Enter(uart_rx, reply)), "bytes")

CallGetVersion ==
    /\ Ready
    /\ \E reply \in Replies :
           Query("get_version", <<>>, reply,
                 get_version(Enter(uart_rx, reply)), "int")

CallReadBuffer ==
    /\ Ready
    /\ Query("read_buffer", <<>>, <<>>, read_buffer(Enter(uart_rx, <<>>)), "bytes")


\* The call returns to its caller, which goes on to its next call.
Return ==
    /\ last.name # "idle"
    /\ last' = Idle
    /\ UNCHANGED <<phase, uart_rx, inflight>>

\* The call returns while the device is still answering a frame the call
\* wrote: the bytes f of that answer have not reached the link yet.
ReturnLate ==
    /\ last.name # "idle"
    /\ \E i \in DOMAIN last.log : last.log[i].k = "write"
    /\ \E f \in LateReplies :
           /\ Len(uart_rx) + Len(inflight) + Len(f) <= MaxLate
           /\ inflight' = inflight \o f
    /\ last' = Idle
    /\ UNCHANGED <<phase, uart_rx>>

\* Between two calls the bytes in flight reach the receive buffer.
Arrive ==
    /\ phase = "ready"
    /\ last.name = "idle"
    /\ inflight # <<>>
    /\ uart_rx' = uart_rx \o inflight
    /\ inflight' = <<>>
    /\ UNCHANGED <<phase, last>>

Next ==
    \/ Construct
    \/ CallCleanUp
    \/ CallPlay
    \/ CallPlayPause
    \/ CallRestart
    \/ CallPause
    \/ CallNext
    \/ CallPrev
    \/ CallNextFolder
    \/ CallPrevFolder
    \/ CallPlayByIndex
    \/ CallPlayByNumber
    \/ CallVolumeUp
    \/ CallVolumeDown
    \/ CallSetVolume
    \/ CallSetEqualizer
    \/ CallSetLooping
    \/ CallSetSource
    \/ CallSleep
    \/ CallReset
    \/ CallGetStatus
    \/ CallGetVolume
    \/ CallGetEqualizer
    \/ CallGetLooping
    \/ CallGetFileCount
    \/ CallGetFolderCount
    \/ CallGetFileIndex
    \/ CallGetPosition
    \/ CallGetLength
    \/ CallGetName
    \/ CallGetVersion
    \/ CallReadBuffer
    \/ Return
    \/ ReturnLate
    \/ Arrive

Spec == Init /\ [][Next]_vars

(***************************************************************************)
(* What the last call did on the link                                      *)
(***************************************************************************)
IsWrite(e) == e.k = "write"

IsRead(e) == e.k = "read"

\* The frames the last call wrote, in order.
Frames ==
    LET w == SelectSeq(last.log, IsWrite)
    IN  [i \in 1..Len(w) |-> w[i].data]

\* The reads the last call made of the link, in order.
Reads == SelectSeq(last.log, IsRead)

Returned == last.kind # "raise"

\* The queries that decode their reply with read_bytes, and all the queries
\* that return a number.
GenericQueries ==
    {"get_volume", "get_equalizer", "get_looping", "get_version",
     "get_file_count", "get_folder_count", "get_file_index", "get_position",
     "get_length"}

NumericQueries == GenericQueries \cup {"get_status"}

\* What read_bytes makes of the bytes b when it returns: -1 of none, and the
\* base-16 value otherwise.
Decoded(b) == IF Len(b) = 0 THEN -1 ELSE NumeralValue(b, 16)

(***************************************************************************)
(* Properties                                                              *)
(***************************************************************************)

\* C1: every frame written to the link starts with 0x7E, ends with 0xEF and
\* has as second byte the number of payload bytes (the opcode and its
\* arguments: all bytes but the start, the length and the end) plus 1.
C1_FrameShape ==
    \A i \in DOMAIN Frames :
        LET f == Frames[i]
        IN  /\ Len(f) >= 4
            /\ f[1] = \H7E
            /\ f[Len(f)] = \HEF
            /\ f[2] = (Len(f) - 3) + 1

\* A frame of an opcode and two arguments has been written.
C1_Witness ==
    /\ last.name = "play_by_index"
    /\ Frames = << <<\H7E, 4, \H03, \H01, \H2C, \HEF>> >>

\* C2: set_volume(L) with L in 0..30 writes exactly [0x7E, 0x03, 0x06, L,
\* 0xEF]; with L outside 0..30 it fails and writes nothing; and no SetVolume
\* frame written by any method carries a level outside 0..30.
C2_SetVolume ==
    /\ last.name = "set_volume" =>
           LET L == last.args[1]
           IN  IF L \in 0..30
               THEN Returned /\ Frames = << <<\H7E, \H03, \H06, L, \HEF>> >>
               ELSE last.exc = "AssertionError" /\ Frames = <<>>
    /\ \A i \in DOMAIN Frames :
           Frames[i][3] = \H06 => Len(Frames[i]) = 5 /\ Frames[i][4] \in 0..30

\* set_volume has refused a level above 30.
C2_Witness ==
    /\ last.name = "set_volume"
    /\ last.args = <<31>>
    /\ last.exc = "AssertionError"
    /\ last.log = <<>>

\* C3: constructing the player with a volume outside 0..30 fails before any
\* Reset frame is written.
C3_ValidateBeforeReset ==
    (last.name = "Player" /\ last.args[1] \notin 0..30) =>
        /\ last.kind = "raise"
        /\ \A i \in DOMAIN Frames : Frames[i] # <<\H7E, \H02, \H0C, \HEF>>

\* C4: play_pause writes the status query and reads the status; then it
\* writes one Play frame when the status is Paused or Stopped, one Pause
\* frame when it is Playing, and nothing for any other status, -1 included.
C4_PlayPause ==
    last.name = "play_pause" =>
        /\ Len(Reads) = 1
        /\ Len(Frames) >= 1
        /\ Frames[1] = <<\H7E, \H02, \H42, \HEF>>
        /\ last.log[2].k = "write" /\ last.log[4].k = "read"
        /\ LET b == Reads[1].data
               status == IF isdigit(b) THEN NumeralValue(b, 10) ELSE -1
           IN  Tail(Frames) =
                   IF status = 2 \/ status = 0
                   THEN << <<\H7E, \H02, \H0D, \HEF>> >>
                   ELSE IF status = 1
                        THEN << <<\H7E, \H02, \H0E, \HEF>> >>
                        ELSE << >>

\* play_pause has found the device paused and written Play.
C4_Witness ==
    /\ last.name = "play_pause"
    /\ last.reply = <<\H32>>
    /\ Frames = << <<\H7E, \H02, \H42, \HEF>>, <<\H7E, \H02, \H0D, \HEF>> >>

\* C5: after capturing the volume V from the device, restart writes
\* SetVolume(0), Next, Pause, SetVolume(V), Prev, these five frames in this
\* order, and so restores the volume it captured.
C5_RestartSequence ==
    last.name = "restart" =>
        /\ Len(Reads) = 1
        /\ Len(Frames) = 6
        /\ Frames[1] = <<\H7E, \H02, \H43, \HEF>>
        /\ Tail(Frames) =
               << <<\H7E, \H03, \H06, 0, \HEF>>,
                  <<\H7E, \H02, \H01, \HEF>>,
                  <<\H7E, \H02, \H0E, \HEF>>,
                  <<\H7E, \H03, \H06, Decoded(Reads[1].data), \HEF>>,
                  <<\H7E, \H02, \H02, \HEF>> >>

\* C6: a query whose read of the link returns no bytes returns -1.
C6_EmptyReplyIsMinusOne ==
    (last.name \in NumericQueries /\ Len(Reads) = 1 /\ Reads[1].data = <<>>) =>
        last.kind = "int" /\ last.val = -1

\* C7: a numeric query whose reply is not a numeral (not a decimal digit
\* string for the status, not a base-16 numeral for the others) returns -1
\* and raises nothing.
C7_MalformedIsMinusOne ==
    (/\ last.name \in NumericQueries
     /\ Len(Reads) = 1
     /\ Len(Reads[1].data) > 0
     /\ IF last.name = "get_status"
        THEN ~isdigit(Reads[1].data)
        ELSE ~IsNumeral(Reads[1].data, 16)) =>
        last.kind = "int" /\ last.val = -1

C9_FolderCountBuiltin ==
    [][(/\ last.name = "idle"
        /\ last'.name = "get_folder_count"
        /\ last'.args[1] # SRC_SDCARD) =>
           /\ last'.kind = "int"
           /\ last'.val = 0
           /\ last'.log = <<>>
           /\ uart_rx' = uart_rx]_vars

\* get_folder_count of the built-in flash has returned 0 with unread bytes
\* still in the receive buffer.
C9_Witness ==
    /\ last.name = "get_folder_count"
    /\ last.args = <<SRC_BUILTIN>>
    /\ last.val = 0
    /\ uart_rx # <<>>

C11_StatusDecimal ==
    last.name = "get_status" =>
        /\ last.kind = "int"
        /\ Len(Reads) = 1
        /\ Reads[1].n = 0
        /\ LET b == Reads[1].data
           IN  last.val = IF isdigit(b) THEN NumeralValue(b, 10) ELSE -1

\* get_status has returned 10 for the reply "10".
C11_Witness ==
    /\ last.name = "get_status"
    /\ last.reply = <<\H31, \H30>>
    /\ last.val = 10

\* C12: each operation without argument bytes writes exactly the one frame
\* [0x7E, 0x02, opcode, 0xEF], with the opcode the opcode table gives it
\* (the query of the file count and of the file index has one opcode for the
\* SD card and one for the built-in flash; that of the folder count exists
\* for the SD card only).
C12_ZeroArgFrames ==
    LET sd == last.args # <<>> /\ last.args[1] = SRC_SDCARD
        opcode ==
            CASE last.name = "play" -> \H0D
              [] last.name = "pause" -> \H0E
              [] last.name = "next" -> \H01
              [] last.name = "prev" -> \H02
              [] last.name = "volume_up" -> \H04
              [] last.name = "volume_down" -> \H05
              [] last.name = "sleep" -> \H0A
              [] last.name = "reset" -> \H0C
              [] last.name = "get_status" -> \H42
              [] last.name = "get_volume" -> \H43
              [] last.name = "get_equalizer" -> \H44
              [] last.name = "get_looping" -> \H45
              [] last.name = "get_version" -> \H46
              [] last.name = "get_file_count" /\ sd -> \H47
              [] last.name = "get_file_count" /\ ~sd -> \H49
              [] last.name = "get_file_index" /\ sd -> \H4B
              [] last.name = "get_file_index" /\ ~sd -> \H4D
              [] last.name = "get_position" -> \H50
              [] last.name = "get_length" -> \H51
              [] last.name = "get_name" -> \H52
              [] last.name = "get_folder_count" /\ sd -> \H53
              [] OTHER -> -1
    IN  opcode # -1 => Frames = << <<\H7E, \H02, opcode, \HEF>> >>

\* volume_down has written its frame.
C12_Witness ==
    /\ last.name = "volume_down"
    /\ Frames = << <<\H7E, \H02, \H05, \HEF>> >>

\* The argument bytes of a frame: those between its opcode and its end mark.
ArgBytes(f) == SubSeq(f, 4, Len(f) - 1)

\* C13 as stated: the length byte of every frame written is 1 plus the
\* number of argument bytes of the command.
C13_LengthByte ==
    \A i \in DOMAIN Frames : Frames[i][2] = 1 + Len(ArgBytes(Frames[i]))

\* C13 as amended: the length byte of every frame written is 2 plus the
\* number of argument bytes of the command: it counts the opcode and itself
\* too.
C13_LengthByteAmended ==
    \A i \in DOMAIN Frames : Frames[i][2] = 2 + Len(ArgBytes(Frames[i]))

\* set_equalizer has written a frame of one argument byte, length byte 3.
C13_Witness ==
    /\ last.name = "set_equalizer"
    /\ Frames = << <<\H7E, \H03, \H07, 3, \HEF>> >>

\* C14: for an index i in 0..65535, play_by_index(i) writes exactly the
\* frame [0x7E, 0x04, 0x03, i div 256, i mod 256, 0xEF]: the high byte of
\* the index first.
C14_PlayByIndex ==
    (last.name = "play_by_index" /\ last.args[1] \in 0..65535) =>
        LET i == last.args[1]
        IN  /\ Returned
            /\ Frames = << <<\H7E, \H04, \H03, i \div 256, i % 256, \HEF>> >>

\* play_by_index(300) has written the argument bytes 0x01, 0x2C.
C14_Witness ==
    /\ last.name = "play_by_index"
    /\ last.args = <<300>>
    /\ Returned
    /\ ArgBytes(Frames[1]) = <<\H01, \H2C>>

\* C18: in every query that reads a reply, each read of the link comes right
\* after a sleep of READ_DELAY that follows the write of the query frame.
C18_DelayBeforeRead ==
    last.name \in NumericQueries \cup {"get_name", "play_pause", "restart"} =>
        \A i \in DOMAIN last.log :
            last.log[i].k = "read" =>
                /\ i > 2
                /\ last.log[i - 1] = Ev("sleep", READ_DELAY, <<>>)
                /\ last.log[i - 2].k = "write"

\* C19: in every method, each write of a frame comes right after a flush of
\* the unread input, with no other operation on the link between the two.
C19_FlushBeforeWrite ==
    \A i \in DOMAIN last.log :
        last.log[i].k = "write" => i > 1 /\ last.log[i - 1].k = "flush"

\* restart has run to its end: six frames, each right after its flush.
C19_Witness ==
    /\ last.name = "restart"
    /\ Returned
    /\ Len(Frames) = 6
    /\ last.log[Len(last.log) - 1].k = "flush"
    /\ last.log[Len(last.log)].k = "write"

\* C20: whatever the device replies to the volume query of restart, once
\* restart has written SetVolume(0) it goes on to write a second SetVolume
\* frame, the restoring one, and then Prev as its last frame.
C20_RestartRestores ==
    (/\ last.name = "restart"
     /\ \E i \in DOMAIN Frames : Frames[i] = <<\H7E, \H03, \H06, 0, \HEF>>) =>
        /\ Len(Frames) = 6
        /\ Frames[2] = <<\H7E, \H03, \H06, 0, \HEF>>
        /\ Frames[5][3] = \H06
        /\ Frames[6] = <<\H7E, \H02, \H02, \HEF>>

\* C15: constructing a Player with a volume V in 0..30, on a link that busio
\* opens, performs exactly: the flush of __init__, then the Reset frame
\* (preceded by the flush every write makes), the 500 ms settle delay, then
\* the SetVolume(V) frame; these two frames are the only ones written, the
\* link is never read for a value, and the constructor returns.
C15_ConstructionOrder ==
    (last.name = "Player" /\ last.args[1] \in 0..30 /\ phase # "unopened") =>
        /\ Returned
        /\ phase = "ready"
        /\ last.log = << Ev("flush", 0, <<>>),
                         Ev("flush", 0, <<>>),
                         Ev("write", 0, <<\H7E, \H02, \H0C, \HEF>>),
                         Ev("sleep", RESET_DELAY, <<>>),
                         Ev("flush", 0, <<>>),
                         Ev("write", 0, <<\H7E, \H03, \H06, last.args[1], \HEF>>) >>

C15_Witness ==
    /\ last.name = "Player"
    /\ last.args = <<20>>
    /\ phase = "ready"
    /\ Frames = << <<\H7E, \H02, \H0C, \HEF>>, <<\H7E, \H03, \H06, 20, \HEF>> >>

\* C16: clean_up() writes one Reset frame and afterwards releases the link
\* when the link has a deinit method, never before that frame is written; and
\* it is safe to call on a Player whose link was never opened: it returns
\* without raising.
C16_CleanUp ==
    last.name = "clean_up" =>
        /\ Returned
        /\ Frames = << <<\H7E, \H02, \H0C, \HEF>> >>
        /\ \A i \in DOMAIN last.log :
               last.log[i].k = "deinit" =>
                   /\ i = Len(last.log)
                   /\ \E j \in 1..(i - 1) : last.log[j].k = "write"
        /\ (last.args = <<1>>) =>
               last.log[Len(last.log)] = Ev("deinit", 0, <<>>)

\* C17 (as stated): whatever the timing of the device's replies, a call that
\* writes a frame and reads the answer decodes only bytes the device sent in
\* reply to that frame: none of the bytes it reads was sent in reply to an
\* earlier command.
C17_NoMisalignment ==
    last.name # "read_buffer" =>
        \A i \in DOMAIN Reads :
            Reads[i].data # <<>> => last.late = 0

\* C17 (amended): the flush before each write discards what reached the link
\* before it, so a call that writes a frame and reads the answer reads
\* exactly the first bytes that reach the link after its flush, and never a
\* byte received before; a late reply to an earlier command that arrives
\* after the flush comes first among them and is decoded as this call's
\* answer.
C17_DecodesOnlyAfterFlush ==
    last.name # "read_buffer" =>
        \A i \in DOMAIN Reads :
            /\ Reads[i].data = IF Reads[i].n = 0 THEN last.reply
                               ELSE Take(last.reply, Reads[i].n)
            /\ last.late <= Len(last.reply)

C17_Witness ==
    /\ last.name = "get_volume"
    /\ last.late = 1
    /\ last.reply = <<\H31, \H30>>
    /\ Reads = << Ev("read", 4, <<\H31, \H30>>) >>
    /\ last.val = 16
    /\ \E i \in DOMAIN last.log : last.log[i].k = "flush"

====
